---- MODULE Spec2Model ----
(***************************************************************************)
(* State-machine model of src/chat.js: the React component App, its two    *)
(* effects (auth bootstrap, message feed), the composer handleSendMessage  *)
(* and the collaborators it talks to (Firebase Auth, Firestore).           *)
(*                                                                         *)
(* React state is the committed state of the component.  A passive effect  *)
(* (useEffect) whose dependencies changed runs in a later step than the    *)
(* commit that changed them, and at the latest right before the next       *)
(* render.  An awaited call is split at the await.                         *)
(***************************************************************************)
EXTENDS Integers, Sequences, FiniteSets, TLC

\* ---------------------------------------------------------------- bounds
MaxDocs == 2         \* documents the collection may hold, requested ones included
MaxAuthChanges == 2  \* identity changes made by the auth provider

\* ---------------------------------------------------------------- values
\* Strings are sequences of characters; null is the empty sequence, which
\* no uid and no handle equals.
Null == <<>>
\* what the user may leave in the input: nothing, only whitespace, a plain
\* text, a text with leading whitespace
Drafts == {<<>>, <<" ">>, <<"a">>, <<" ", "b">>}
U1 == <<"u", "s", "e", "r", "-", "0", "0", "0", "1">>
U2 == <<"u", "s", "e", "r", "-", "0", "0", "0", "2">>
Uids == {U1, U2}
OtherText == <<"a">>

VARIABLES
  \* React state of App
  messages, newMessage, user, db, auth, isAuthReady,
  \* component and effect bookkeeping kept by React
  lifecycle, effectDeps, effectSub,
  \* Firebase Auth
  initialAuthToken, authListener, currentUser, notified, lastNotifiedUid,
  signInStatus, signInMethod, authChanges,
  \* Firestore
  subs, server, inflight,
  \* history: the last step taken and the last snapshot handed to the callback
  last, lastSnapshot

reactVars == <<messages, newMessage, user, db, auth, isAuthReady>>
effectVars == <<effectDeps, effectSub>>
authVars == <<initialAuthToken, authListener, currentUser, notified,
              lastNotifiedUid, signInStatus, signInMethod, authChanges>>
storeVars == <<subs, server, inflight>>
vars == <<reactVars, lifecycle, effectVars, authVars, storeVars, last, lastSnapshot>>

\* the step last taken: its kind, the subscription it concerns (0 for none) and,
\* for an acknowledgment, what the input held when it arrived
Event(op, s) == [op |-> op, sub |-> s, draft |-> Null]

\* ------------------------------------------------------- String.prototype
RECURSIVE trimStart(_)
trimStart(s) == IF s # <<>> /\ Head(s) = " " THEN trimStart(Tail(s)) ELSE s

RECURSIVE trimEnd(_)
trimEnd(s) == IF s # <<>> /\ s[Len(s)] = " " THEN trimEnd(SubSeq(s, 1, Len(s) - 1)) ELSE s

trim(s) == trimEnd(trimStart(s))

\* ------------------------------------------------------------------ Init
Init ==
  /\ messages = <<>>
  /\ newMessage = <<>>
  /\ user = Null
  /\ db = Null
  /\ auth = Null
  /\ isAuthReady = FALSE
  /\ lifecycle = "rendered"
  /\ effectDeps = <<Null, Null, FALSE>>
  /\ effectSub = 0
  /\ initialAuthToken \in {Null, <<"t">>}
  /\ authListener = "none"
  /\ currentUser = Null
  /\ notified = FALSE
  /\ lastNotifiedUid = Null
  /\ signInStatus = "idle"
  /\ signInMethod = "none"
  /\ authChanges = 0
  /\ subs = <<>>
  /\ server = {}
  /\ inflight = <<>>
  /\ last = Event("init", 0)
  /\ lastSnapshot = <<>>

\* ------------------------------------------- the messages effect (59-79)
Deps == <<db, user, isAuthReady>>

\* mutant of DepsChanged: user is missing from the dependency array
DepsChangedIgnoringUser(old, new) == <<old[1], old[3]>> # <<new[1], new[3]>>

\* the dependency array of the effect: it re-runs when one of them changed
DepsChanged(old, new) == old # new

EffectPending == lifecycle = "mounted" /\ DepsChanged(effectDeps, Deps)

\* mutant of Cleanup: the effect returns no cleanup
CleanupNothing(ss, es) == ss

\* the cleanup returned by the effect: () => unsubscribe()
Cleanup(ss, es) == IF es = 0 THEN ss ELSE [ss EXCEPT ![es].state = "closed"]

\* mutant of ShouldSubscribe: the identity is not tested
ShouldSubscribeIgnoringUser(d, u, r) == d # Null /\ r

\* if (db && user && isAuthReady)
ShouldSubscribe(d, u, r) == d # Null /\ u # Null /\ r

\* onSnapshot(q, next, error): a new standing subscription
OnSnapshot(ss, u) == Append(ss, [openedUnder |-> u, state |-> "open"])

\* mutant of EffectRun: a subscription that exists is kept for the new identity
EffectRunReusing(ss, es, d, u, r) ==
  IF ShouldSubscribe(d, u, r) /\ es # 0
    THEN [subs |-> ss, effectSub |-> es]
    ELSE LET cleaned == Cleanup(ss, es)
         IN IF ShouldSubscribe(d, u, r)
              THEN [subs |-> OnSnapshot(cleaned, u), effectSub |-> Len(cleaned) + 1]
              ELSE [subs |-> cleaned, effectSub |-> 0]

\* one run of the effect: cleanup of the previous run, then the body
EffectRun(ss, es, d, u, r) ==
  LET cleaned == Cleanup(ss, es)
  IN IF ShouldSubscribe(d, u, r)
       THEN [subs |-> OnSnapshot(cleaned, u), effectSub |-> Len(cleaned) + 1]
       ELSE [subs |-> cleaned, effectSub |-> 0]

\* effects left over from the previous commit run before the next render
Flushed ==
  IF EffectPending
    THEN LET e == EffectRun(subs, effectSub, db, user, isAuthReady)
         IN [subs |-> e.subs, effectSub |-> e.effectSub, effectDeps |-> Deps]
    ELSE [subs |-> subs, effectSub |-> effectSub, effectDeps |-> effectDeps]

Render ==
  /\ subs' = Flushed.subs
  /\ effectSub' = Flushed.effectSub
  /\ effectDeps' = Flushed.effectDeps

NoRender == UNCHANGED <<subs, effectSub, effectDeps>>

FlushEffects ==
  /\ EffectPending
  /\ Render
  /\ last' = Event("effect", Flushed.effectSub)
  /\ UNCHANGED <<reactVars, lifecycle, authVars, server, inflight, lastSnapshot>>

\* ------------------------------------------- the bootstrap effect (22-56)
\* mutant of SignInMethod: the token is ignored
SignInMethodAnonymousOnly(token) == "anonymous"

\* which sign-in signIn() requests: if (initialAuthToken) ... else ...
SignInMethod(token) == IF token # Null THEN "customToken" ELSE "anonymous"

\* the effect body runs to its end: handles stored, observer registered,
\* signIn() called and left pending at its await
MountOk ==
  /\ lifecycle = "rendered"
  /\ lifecycle' = "mounted"
  /\ db' = <<"d", "b">>
  /\ auth' = <<"a", "u", "t", "h">>
  /\ authListener' = "active"
  /\ signInStatus' = "pending"
  /\ signInMethod' = SignInMethod(initialAuthToken)
  /\ last' = Event("mount", 0)
  /\ UNCHANGED <<messages, newMessage, user, isAuthReady, effectVars,
                 initialAuthToken, currentUser, notified, lastNotifiedUid,
                 authChanges, storeVars, lastSnapshot>>

\* initializeApp / getFirestore / getAuth throws: caught at line 53, logged,
\* nothing stored, no observer, no sign-in, no cleanup returned
MountThrows ==
  /\ lifecycle = "rendered"
  /\ lifecycle' = "mounted"
  /\ last' = Event("mountError", 0)
  /\ UNCHANGED <<reactVars, effectVars, authVars, storeVars, lastSnapshot>>

\* the awaited sign-in resolves: the provider now holds identity u
SignInResolves(u) ==
  /\ signInStatus = "pending"
  /\ signInStatus' = "resolved"
  /\ currentUser' = u
  /\ last' = Event("signInOk", 0)
  /\ UNCHANGED <<reactVars, lifecycle, effectVars, initialAuthToken, authListener,
                 notified, lastNotifiedUid, signInMethod, authChanges, storeVars,
                 lastSnapshot>>

\* the awaited sign-in rejects: catch (error) { console.error(...) }
SignInRejects ==
  /\ signInStatus = "pending"
  /\ signInStatus' = "rejected"
  /\ last' = Event("signInError", 0)
  /\ UNCHANGED <<reactVars, lifecycle, effectVars, initialAuthToken, authListener,
                 currentUser, notified, lastNotifiedUid, signInMethod, authChanges,
                 storeVars, lastSnapshot>>

\* the provider's identity changes outside this component (sign-out,
\* another identity taking over the session)
ProviderAuthChange(v) ==
  /\ lifecycle = "mounted"
  /\ auth # Null
  /\ v # currentUser
  /\ authChanges < MaxAuthChanges
  /\ authChanges' = authChanges + 1
  /\ currentUser' = v
  /\ last' = Event("providerAuthChange", 0)
  /\ UNCHANGED <<reactVars, lifecycle, effectVars, initialAuthToken, authListener,
                 notified, lastNotifiedUid, signInStatus, signInMethod, storeVars,
                 lastSnapshot>>

\* mutant of ReadyAfterReport: ready only once an identity is reported
ReadyOnlyWithIdentity(u) == u # Null

\* setIsAuthReady(true): whatever identity is reported, null included
ReadyAfterReport(u) == TRUE

\* mutant of AfterAuthReport: a report of the observer empties the list
AfterAuthReportCleared(list) == <<>>

\* what the observer callback (45-48) leaves in the list: it sets user and
\* isAuthReady only
AfterAuthReport(list) == list

\* the observer callback (45-48).  The provider calls it once with the
\* identity it holds when its initial check is done, then on every change.
AuthStateChanged ==
  /\ authListener = "active"
  /\ ~notified \/ lastNotifiedUid # currentUser
  /\ messages' = AfterAuthReport(messages)
  /\ notified' = TRUE
  /\ lastNotifiedUid' = currentUser
  /\ Render
  /\ user' = currentUser
  /\ isAuthReady' = ReadyAfterReport(currentUser)
  /\ last' = Event("authStateChanged", 0)
  /\ UNCHANGED <<newMessage, db, auth, lifecycle, initialAuthToken,
                 authListener, currentUser, signInStatus, signInMethod, authChanges,
                 server, inflight, lastSnapshot>>

\* mutant of UnsubscribeAuth: the bootstrap effect returns no cleanup
UnsubscribeAuthNothing(l) == l

\* the cleanup of the bootstrap effect: () => unsubscribeAuth(); there is
\* none when the effect body threw before returning it
UnsubscribeAuth(l) == IF l = "active" THEN "released" ELSE l

\* component teardown: the cleanups of both effects (52, 77)
Unmount ==
  /\ lifecycle = "mounted"
  /\ lifecycle' = "unmounted"
  /\ authListener' = UnsubscribeAuth(authListener)
  /\ subs' = Cleanup(subs, effectSub)
  /\ effectSub' = 0
  /\ last' = Event("unmount", 0)
  /\ UNCHANGED <<reactVars, effectDeps, initialAuthToken, currentUser, notified,
                 lastNotifiedUid, signInStatus, signInMethod, authChanges, server,
                 inflight, lastSnapshot>>

\* ------------------------------------------------------ Firestore (64-75)
\* addDoc accepted: the collaborator assigns the id and, for the
\* serverTimestamp() marker, its own clock
Stored(coll, fields) ==
  [id |-> Cardinality(coll) + 1,
   data |-> [text |-> fields.text, userId |-> fields.userId,
             timestamp |-> Cardinality(coll) + 1]]

\* mutant of OrderByTimestampAsc: the query orders descending
RECURSIVE OrderByTimestampDesc(_)
OrderByTimestampDesc(coll) ==
  IF coll = {} THEN <<>>
  ELSE LET first == CHOOSE d \in coll : \A e \in coll : d.data.timestamp >= e.data.timestamp
       IN <<first>> \o OrderByTimestampDesc(coll \ {first})

\* query(messagesCollectionRef, orderBy('timestamp', 'asc'))
RECURSIVE OrderByTimestampAsc(_)
OrderByTimestampAsc(coll) ==
  IF coll = {} THEN <<>>
  ELSE LET first == CHOOSE d \in coll : \A e \in coll : d.data.timestamp <= e.data.timestamp
       IN <<first>> \o OrderByTimestampAsc(coll \ {first})

\* mutant of FetchedMessages: the snapshot is merged into the list held
FetchedMessagesMerged(docs) ==
  messages \o [i \in 1..Len(docs) |->
     [id |-> docs[i].id, text |-> docs[i].data.text, userId |-> docs[i].data.userId,
      timestamp |-> docs[i].data.timestamp]]

\* snapshot.docs.map(doc => ({ id: doc.id, ...doc.data() }))
FetchedMessages(docs) ==
  [i \in 1..Len(docs) |->
     [id |-> docs[i].id, text |-> docs[i].data.text, userId |-> docs[i].data.userId,
      timestamp |-> docs[i].data.timestamp]]

\* the snapshot listener is called only while its subscription is open:
\* unsubscribe() and a stream error both end the deliveries
Listening(s) == subs[s].state = "open"

\* the provider delivers the current result of the query to subscription s;
\* the success callback (67-72) replaces the list
DeliverSnapshot(s) ==
  /\ s \in DOMAIN subs
  /\ IF Listening(s) /\ lifecycle = "mounted"
       THEN /\ Render
            /\ messages' = FetchedMessages(OrderByTimestampAsc(server))
            /\ lastSnapshot' = OrderByTimestampAsc(server)
            /\ last' = Event("snapshot", s)
       ELSE /\ NoRender
            /\ last' = Event("snapshotDropped", s)
            /\ UNCHANGED <<messages, lastSnapshot>>
  /\ UNCHANGED <<newMessage, user, db, auth, isAuthReady, lifecycle, authVars,
                 server, inflight>>

\* mutant of AfterSnapshotError: the error callback empties the list
AfterSnapshotErrorCleared(list) == <<>>

\* what the error callback (73-75) leaves in the list: it only logs
AfterSnapshotError(list) == list

\* the stream of subscription s fails and ends; the error callback runs
SnapshotError(s) ==
  /\ s \in DOMAIN subs
  /\ Listening(s)
  /\ subs' = [subs EXCEPT ![s].state = "errored"]
  /\ messages' = AfterSnapshotError(messages)
  /\ last' = Event("snapshotError", s)
  /\ UNCHANGED <<newMessage, user, db, auth, isAuthReady, lifecycle, effectVars,
                 authVars, server, inflight, lastSnapshot>>

\* another client of the channel appends a message
HasRoom == Cardinality(server) + Len(inflight) < MaxDocs

OtherClientAppend(u) ==
  /\ lifecycle = "mounted"
  /\ HasRoom
  /\ server' = server \cup {Stored(server, [text |-> OtherText, userId |-> u])}
  /\ last' = Event("otherAppend", 0)
  /\ UNCHANGED <<reactVars, lifecycle, effectVars, authVars, subs, inflight,
                 lastSnapshot>>

\* ------------------------------------------------------- Composer (87-101)
\* the form is rendered only past the loading screen (104-110)
FormShown == lifecycle = "mounted" /\ isAuthReady

\* onChange={(e) => setNewMessage(e.target.value)}
EditDraft(v) ==
  /\ FormShown
  /\ v # newMessage
  /\ Render
  /\ newMessage' = v
  /\ last' = Event("edit", 0)
  /\ UNCHANGED <<messages, user, db, auth, isAuthReady, lifecycle, authVars,
                 server, inflight, lastSnapshot>>

\* mutant of SubmitRejected: the identity is not tested
SubmitRejectedIgnoringUser(draft, d, u) == trim(draft) = <<>> \/ d = Null

\* mutant of SubmitRejected: the Draft is tested without trim()
SubmitRejectedUntrimmed(draft, d, u) == draft = <<>> \/ d = Null \/ u = Null

\* if (newMessage.trim() === '' || !db || !user) return;
SubmitRejected(draft, d, u) == trim(draft) = <<>> \/ d = Null \/ u = Null

\* mutant of AppendFields: the trimmed text is sent
AppendFieldsTrimmed(draft, u) == [text |-> trim(draft), userId |-> u]

\* the fields handed to addDoc (the timestamp marker is resolved by Stored)
AppendFields(draft, u) == [text |-> draft, userId |-> u]

\* handleSendMessage up to its await
Submit ==
  /\ FormShown
  /\ IF SubmitRejected(newMessage, db, user)
       THEN /\ last' = Event("submitNoop", 0)
            /\ UNCHANGED inflight
       ELSE /\ HasRoom
            /\ inflight' = Append(inflight, AppendFields(newMessage, user))
            /\ last' = Event("submit", 0)
  /\ UNCHANGED <<reactVars, lifecycle, effectVars, authVars, subs, server,
                 lastSnapshot>>

Without(q, i) == SubSeq(q, 1, i - 1) \o SubSeq(q, i + 1, Len(q))

\* mutant of AfterAck: the input is left alone after the await
AfterAckKept(draft) == draft

\* what line 97 leaves in the input: setNewMessage('')
AfterAck(draft) == <<>>

\* the collaborator accepts request i; the await returns and line 97 runs
\* (a state setter of an unmounted component does nothing)
AddDocResolves(i) ==
  /\ i \in DOMAIN inflight
  /\ server' = server \cup {Stored(server, inflight[i])}
  /\ inflight' = Without(inflight, i)
  /\ IF lifecycle = "mounted" /\ AfterAck(newMessage) # newMessage
       THEN Render /\ newMessage' = AfterAck(newMessage)
       ELSE NoRender /\ UNCHANGED newMessage
  /\ last' = [Event("appendOk", 0) EXCEPT !.draft = newMessage]
  /\ UNCHANGED <<messages, user, db, auth, isAuthReady, lifecycle, authVars,
                 lastSnapshot>>

\* mutant of AfterReject: the catch block clears the input too
AfterRejectCleared(draft) == <<>>

\* what the catch block (98-100) leaves in the input: it only logs
AfterReject(draft) == draft

\* the collaborator rejects request i: catch (error) { console.error(...) }
AddDocRejects(i) ==
  /\ i \in DOMAIN inflight
  /\ inflight' = Without(inflight, i)
  /\ IF lifecycle = "mounted" /\ AfterReject(newMessage) # newMessage
       THEN Render /\ newMessage' = AfterReject(newMessage)
       ELSE NoRender /\ UNCHANGED newMessage
  /\ last' = Event("appendError", 0)
  /\ UNCHANGED <<messages, user, db, auth, isAuthReady, lifecycle, authVars,
                 server, lastSnapshot>>

\* ----------------------------------------------------- Presenter (129-146)
You == <<"Y", "o", "u">>
UserPrefix == <<"U", "s", "e", "r", ":", " ">>
Ellipsis == <<".", ".", ".">>

\* mutant of substring: the sender id is shown whole
substringAll(str, start, end) == str

\* String.prototype.substring(start, end): both indices are clamped to
\* 0..length and swapped when start > end; indices count from 0
substring(str, start, end) ==
  LET clamp(x) == IF x < 0 THEN 0 ELSE IF x > Len(str) THEN Len(str) ELSE x
      from == IF clamp(start) <= clamp(end) THEN clamp(start) ELSE clamp(end)
      to == IF clamp(start) <= clamp(end) THEN clamp(end) ELSE clamp(start)
  IN SubSeq(str, from + 1, to)

\* msg.userId === user?.uid: user?.uid is undefined while user is null, and
\* a sender id is a string, never undefined
Own(msg, u) == u # Null /\ msg.userId = u

\* the row's alignment class (132)
Align(msg, u) == IF Own(msg, u) THEN "justify-end" ELSE "justify-start"

\* the bubble's colour class (136-138)
Bubble(msg, u) == IF Own(msg, u) THEN "bg-blue-500" ELSE "bg-gray-300"

\* the sender label (143)
Label(msg, u) ==
  IF Own(msg, u) THEN You ELSE UserPrefix \o substring(msg.userId, 0, 8) \o Ellipsis

\* messages.map(...) as rendered for identity u
Presented(u) ==
  [k \in DOMAIN messages |->
     [key |-> messages[k].id, text |-> messages[k].text,
      align |-> Align(messages[k], u), bubble |-> Bubble(messages[k], u),
      label |-> Label(messages[k], u)]]

\* ------------------------------------------------------------------ Next
Next ==
  \/ MountOk
  \/ MountThrows
  \/ \E u \in Uids : SignInResolves(u)
  \/ SignInRejects
  \/ \E v \in Uids \cup {Null} : ProviderAuthChange(v)
  \/ AuthStateChanged
  \/ FlushEffects
  \/ Unmount
  \/ \E s \in DOMAIN subs : DeliverSnapshot(s)
  \/ \E s \in DOMAIN subs : SnapshotError(s)
  \/ \E u \in Uids : OtherClientAppend(u)
  \/ \E v \in Drafts : EditDraft(v)
  \/ Submit
  \/ \E i \in DOMAIN inflight : AddDocResolves(i)
  \/ \E i \in DOMAIN inflight : AddDocRejects(i)

Spec == Init /\ [][Next]_vars

\* React runs every passive effect it has scheduled
FairSpec == Spec /\ WF_vars(FlushEffects)

\* ... and the collaborator keeps delivering to a subscription that is open
Delivery == \E s \in DOMAIN subs : Listening(s) /\ DeliverSnapshot(s)

FeedFairSpec == FairSpec /\ WF_vars(Delivery)

\* ---------------------------------------------------------------- claims
IsSubmit == last'.op \in {"submit", "submitNoop"}
Blank(draft) == draft = <<>> \/ \A k \in 1..Len(draft) : draft[k] = " "
Active(s) == subs[s].state # "closed"
ActiveSubs == {s \in DOMAIN subs : Active(s)}
OpenSubs == {s \in DOMAIN subs : subs[s].state = "open"}
Opened == Len(subs') > Len(subs)
EffectsFlushed == lifecycle = "mounted" /\ ~EffectPending
EffectRan == effectDeps' # effectDeps

\* C1: a submit of a Draft that is non-blank after trimming, made while an
\* Identity and the database handle are present, issues exactly one append
\* request carrying the Draft as text and the current Identity as sender; its
\* acknowledgment appends exactly one Message with that text and sender, and
\* the Draft of the running component is empty afterwards.
C1_SubmitAppendsOneMessage ==
  [][ /\ (IsSubmit /\ ~Blank(newMessage) /\ user # Null /\ db # Null)
          => inflight' = Append(inflight, [text |-> newMessage, userId |-> user])
      /\ last'.op = "appendOk"
          => /\ \E i \in DOMAIN inflight :
                  /\ inflight' = Without(inflight, i)
                  /\ \E d \in server' :
                       /\ d \notin server
                       /\ server' = server \cup {d}
                       /\ d.data.text = inflight[i].text
                       /\ d.data.userId = inflight[i].userId
             /\ lifecycle = "mounted" => newMessage' = <<>> ]_vars

C1_Witness ==
  /\ last.op = "appendOk"
  /\ lifecycle = "mounted"
  /\ newMessage = <<>>
  /\ \E d \in server : d.data.text = <<" ", "b">> /\ d.data.userId = user

\* C2: submitting a Draft that is empty or only whitespace issues no append
\* request and leaves the Draft unchanged.
C2_BlankSubmitIsNoop ==
  [][ (IsSubmit /\ Blank(newMessage))
        => (inflight' = inflight /\ newMessage' = newMessage /\ server' = server) ]_vars

C2_Witness ==
  /\ last.op = "submitNoop"
  /\ newMessage = <<" ">>
  /\ user # Null
  /\ db # Null

\* C3 as stated: when an append request is rejected the Draft holds the text
\* that was submitted, the local list is unchanged and no request is issued.
C3_RejectKeepsSubmittedText ==
  [][ last'.op = "appendError"
        => \E i \in DOMAIN inflight :
             /\ inflight' = Without(inflight, i)
             /\ newMessage' = inflight[i].text
             /\ messages' = messages ]_vars

\* C3 amended: a rejection leaves the Draft as it is at that moment (the
\* submitted text unless it was edited or cleared since the submit), adds no
\* message to the local list or the collection, and issues no request.
C3_RejectLeavesDraft ==
  [][ last'.op = "appendError"
        => /\ newMessage' = newMessage
           /\ messages' = messages
           /\ server' = server
           /\ \E i \in DOMAIN inflight : inflight' = Without(inflight, i) ]_vars

C3_Witness ==
  /\ last.op = "appendError"
  /\ newMessage = <<"a">>
  /\ inflight = <<>>
  /\ server = {}
  /\ messages = <<>>

\* C4: after every delivery the local list is the most recently delivered
\* snapshot, document by document in the order delivered, which is ascending
\* by timestamp: nothing is re-sorted, merged or dropped locally.
C4_ListIsLastSnapshot ==
  /\ Len(messages) = Len(lastSnapshot)
  /\ \A k \in 1..Len(lastSnapshot) :
       /\ messages[k].id = lastSnapshot[k].id
       /\ messages[k].text = lastSnapshot[k].data.text
       /\ messages[k].userId = lastSnapshot[k].data.userId
       /\ messages[k].timestamp = lastSnapshot[k].data.timestamp
  /\ \A j, k \in 1..Len(messages) : j < k => messages[j].timestamp < messages[k].timestamp

C4_Witness ==
  /\ last.op = "snapshot"
  /\ Len(messages) = 2
  /\ messages[1].userId # messages[2].userId

\* C5: a snapshot delivered on a subscription whose effect has been cleaned
\* up (on a change of identity or on unmount) does not change the local list.
C5_NoDeliveryAfterCleanup ==
  [][ \A s \in DOMAIN subs :
        (s # effectSub /\ last'.op \in {"snapshot", "snapshotDropped"} /\ last'.sub = s)
          => messages' = messages ]_vars

C5_Witness ==
  /\ last.op = "snapshotDropped"
  /\ last.sub \in DOMAIN subs
  /\ subs[last.sub].state = "closed"
  /\ lifecycle = "mounted"
  /\ messages # FetchedMessages(OrderByTimestampAsc(server))

\* C6 as stated: once the sign-in request has failed readiness is never true.
C6_FailedSignInNeverReady == signInStatus = "rejected" => ~isAuthReady

\* C6 amended: a failed sign-in changes neither readiness nor identity;
\* readiness is true exactly once the auth observer has made its first
\* report, whatever identity it reports, and stays false when initialisation
\* failed and no observer was registered.
C6_ReadyIffObserverReported ==
  /\ [](isAuthReady <=> notified)
  /\ [](authListener = "none" => ~isAuthReady)
  /\ [][ last'.op = "signInError" => UNCHANGED <<isAuthReady, user, signInMethod>> ]_vars

C6_Witness ==
  /\ signInStatus = "rejected"
  /\ isAuthReady
  /\ user = Null
  /\ lifecycle = "mounted"

\* C7 as stated: in every state an open subscription implies the database
\* handle, a non-null Identity and readiness.
C7_OpenOnlyWhenGuardHolds ==
  \A s \in OpenSubs : db # Null /\ user # Null /\ isAuthReady

\* C7 amended: a subscription is opened only by an effect run for a render
\* with the database handle, a non-null Identity and readiness; none exists
\* before readiness; and once the effect has run for the current render an
\* open subscription implies all three.
C7_OpenedOnlyWhenGuardHolds ==
  /\ [](~isAuthReady => subs = <<>>)
  /\ [](EffectsFlushed
          => \A s \in ActiveSubs : db # Null /\ user # Null /\ isAuthReady)
  /\ [][ Opened => (db # Null /\ user # Null /\ isAuthReady) ]_vars

C7_Witness ==
  /\ OpenSubs # {}
  /\ EffectsFlushed
  /\ user # Null
  /\ Len(subs) >= 2

\* C8: at most one subscription is open at any time; whenever one is opened
\* every earlier one has been closed.
C8_AtMostOneSubscription ==
  /\ [](Cardinality(ActiveSubs) <= 1)
  /\ [](\A s \in ActiveSubs : s = effectSub)
  /\ [][ Opened => \A s \in DOMAIN subs : subs'[s].state = "closed" ]_vars

C8_Witness ==
  /\ Len(subs) >= 2
  /\ subs[1].state = "closed"
  /\ subs[Len(subs)].state = "open"
  /\ subs[1].openedUnder # subs[Len(subs)].openedUnder

\* C9: whenever the Identity reported is null while a subscription is open,
\* that subscription gets closed, no subscription is opened while the
\* Identity is null, and once none is open none is while the Identity stays
\* null.
C9_SignOutClosesSubscription ==
  /\ (user = Null /\ lifecycle = "mounted" /\ ActiveSubs # {}) ~> (ActiveSubs = {})
  /\ [][ user = Null => ~Opened ]_vars
  /\ [][ (user = Null /\ user' = Null /\ ActiveSubs = {}) => ActiveSubs' = {} ]_vars

C9_Witness ==
  /\ user = Null
  /\ isAuthReady
  /\ lifecycle = "mounted"
  /\ last.op = "effect"
  /\ subs # <<>>
  /\ ActiveSubs = {}

\* C10 as stated: the open subscription was always opened under the
\* current Identity.
C10_OpenUnderCurrentIdentity == \A s \in OpenSubs : subs[s].openedUnder = user

\* C10 amended: subscriptions are not reused: every run of the effect closes
\* the subscription of the previous run and, for a non-null Identity, opens a
\* fresh one under it; a closed subscription stays closed; so once the effect
\* has run for the current render the open subscription was opened under the
\* current Identity.
C10_FreshSubscriptionPerIdentity ==
  /\ [](EffectsFlushed => \A s \in ActiveSubs : subs[s].openedUnder = user)
  /\ [][ EffectRan
           => /\ \A s \in DOMAIN subs : subs'[s].state = "closed"
              /\ (db # Null /\ user # Null /\ isAuthReady)
                   => /\ Len(subs') = Len(subs) + 1
                      /\ subs'[Len(subs')] = [openedUnder |-> user, state |-> "open"]
              /\ ~(db # Null /\ user # Null /\ isAuthReady) => Len(subs') = Len(subs) ]_vars
  /\ [][ \A s \in DOMAIN subs :
           /\ s \in DOMAIN subs'
           /\ subs'[s].openedUnder = subs[s].openedUnder
           /\ subs[s].state = "closed" => subs'[s].state = "closed" ]_vars

C10_Witness ==
  /\ EffectsFlushed
  /\ Len(subs) = 2
  /\ authChanges = 1
  /\ subs[1] = [openedUnder |-> U1, state |-> "closed"]
  /\ subs[2] = [openedUnder |-> U2, state |-> "open"]
  /\ user = U2

\* C11: after teardown, from whatever state it happens, neither the auth
\* observer nor any feed subscription is active, and none becomes active.
C11_TeardownReleasesBoth ==
  lifecycle = "unmounted" => (authListener # "active" /\ ActiveSubs = {})

C11_Witness ==
  /\ last.op = "unmount"
  /\ authListener = "released"
  /\ user # Null
  /\ effectDeps = Deps
  /\ subs # <<>>
  /\ subs[Len(subs)].state = "closed"

\* C12: a submit made while the Identity is null or the database handle is
\* missing issues no append request, logs no error and leaves the Draft and
\* everything else of the component unchanged, whatever the Draft holds; the
\* guard of the handler rejects every Draft in both cases.
C12_SubmitWithoutIdentityIsNoop ==
  /\ [][ (IsSubmit /\ (user = Null \/ db = Null))
           => /\ last'.op = "submitNoop"
              /\ UNCHANGED <<inflight, server, reactVars, subs>> ]_vars
  /\ [](\A d \in Drafts : \A u \in Uids \cup {Null} :
          SubmitRejected(d, Null, u) /\ SubmitRejected(d, db, Null))

C12_Witness ==
  /\ last.op = "submitNoop"
  /\ user = Null
  /\ db # Null
  /\ newMessage = <<"a">>

\* C13: a subscription error leaves the local list as it is and opens no
\* subscription; a subscription is only ever opened by a run of the effect
\* for changed dependencies, so the failed one is not replaced on its own.
C13_SubscriptionErrorKeepsList ==
  /\ [][ last'.op = "snapshotError"
           => /\ messages' = messages
              /\ Len(subs') = Len(subs)
              /\ OpenSubs' = OpenSubs \ {last'.sub}
              /\ UNCHANGED <<effectVars, inflight>> ]_vars
  /\ [][ Opened => (EffectRan /\ effectDeps # Deps) ]_vars

C13_Witness ==
  /\ last.op = "snapshotError"
  /\ subs[last.sub].state = "errored"
  /\ Len(messages) = 2
  /\ lifecycle = "mounted"

\* C14: a sign-in request is issued only once, from the state in which
\* none was issued yet; it is a token sign-in when a token was provided and
\* an anonymous one otherwise; once it has resolved or failed, no request of
\* either kind follows.
C14_OneSignInRequest ==
  /\ [](signInMethod = "none" <=> signInStatus = "idle")
  /\ [](signInMethod # "none"
          => signInMethod = (IF initialAuthToken # Null THEN "customToken" ELSE "anonymous"))
  /\ [][ signInStatus' # signInStatus
           => \/ signInStatus = "idle" /\ signInStatus' = "pending"
              \/ signInStatus = "pending" /\ signInStatus' \in {"resolved", "rejected"} ]_vars
  /\ [][ signInStatus # "idle" => UNCHANGED <<signInMethod, initialAuthToken>> ]_vars

C14_Witness ==
  /\ signInStatus = "rejected"
  /\ signInMethod = "customToken"
  /\ last.op = "authStateChanged"
  /\ user # Null

\* C15: every acknowledgment appends one Message and leaves the other
\* requests in flight, so two submits pending together are both appended; the
\* local list is at all times a prefix of the collection in timestamp order;
\* and while a subscription is open, under fair delivery, the list comes to
\* hold every Message of the collection.
Shown(d) == \E k \in DOMAIN messages : messages[k].id = d.id

C15_ConcurrentAppendsBothAppear ==
  /\ [][ last'.op = "appendOk"
           => /\ Cardinality(server') = Cardinality(server) + 1
              /\ \E i \in DOMAIN inflight :
                    /\ inflight' = Without(inflight, i)
                    /\ \E d \in server' \ server :
                          /\ d.data.text = inflight[i].text
                          /\ d.data.userId = inflight[i].userId
                          /\ \A e \in server : e.data.timestamp < d.data.timestamp ]_vars
  /\ [](\A d \in server : \A k \in DOMAIN messages :
          d.data.timestamp < messages[k].timestamp
            => \E j \in 1..(k - 1) : messages[j].id = d.id /\ messages[j].text = d.data.text)
  /\ (OpenSubs # {}) ~> (OpenSubs = {} \/ \A d \in server : Shown(d))

C15_Witness ==
  /\ last.op = "appendOk"
  /\ Len(inflight) = 1
  /\ Cardinality(server) = 1
  /\ \E d \in server : d.data.text # inflight[1].text /\ d.data.userId = inflight[1].userId
  /\ OpenSubs # {}

\* C16: readiness is monotonic: once isAuthReady is true no step makes it
\* false, every report of the auth observer (a sign-out included) leaves it
\* true, and a sign-out gives Ready with a null identity, the form still shown.
C16_ReadinessMonotonic ==
  /\ [][ isAuthReady => isAuthReady' ]_vars
  /\ [][ (last'.op = "authStateChanged" /\ lifecycle = "mounted")
           => (isAuthReady' /\ FormShown' /\ user' = currentUser) ]_vars

C16_Witness ==
  /\ last.op = "authStateChanged"
  /\ isAuthReady
  /\ user = Null
  /\ lastNotifiedUid = Null
  /\ subs # <<>>
  /\ authChanges >= 1

\* C17: an acknowledgment arriving at the mounted component empties the Draft
\* whatever it holds then, text typed after the submit included; that text is
\* in no request and in no stored Message: the step stores the text of a
\* request that was in flight and creates no request.
C17_AckClearsLaterDraft ==
  [][ last'.op = "appendOk"
        => /\ last'.draft = newMessage
           /\ lifecycle = "mounted" => newMessage' = <<>>
           /\ \E i \in DOMAIN inflight :
                /\ inflight' = Without(inflight, i)
                /\ \A d \in server' \ server : d.data.text = inflight[i].text ]_vars

C17_Witness ==
  /\ last.op = "appendOk"
  /\ last.draft = <<" ", "b">>
  /\ newMessage = <<>>
  /\ inflight = <<>>
  /\ lifecycle = "mounted"
  /\ \A d \in server : d.data.text = <<"a">>

\* C18: an Identity change never clears the local list: the observer's report
\* and the effect's cleanup and re-subscription leave it as it is, so after a
\* sign-out it is still the last snapshot delivered, and with a new
\* subscription open it changes only by a snapshot delivered on a subscription
\* that is open.
C18_IdentityChangeKeepsList ==
  /\ [][ last'.op \in {"authStateChanged", "effect", "providerAuthChange", "unmount"}
           => messages' = messages ]_vars
  /\ [][ messages' # messages
           => (last'.op = "snapshot" /\ last'.sub \in OpenSubs) ]_vars
  /\ []((isAuthReady /\ user = Null)
          => /\ Len(messages) = Len(lastSnapshot)
             /\ \A k \in DOMAIN messages : messages[k].id = lastSnapshot[k].id)

C18_Witness ==
  /\ last.op = "effect"
  /\ user = U2
  /\ Len(subs) = 2
  /\ subs[1].openedUnder = U1 /\ subs[1].state = "closed"
  /\ subs[2].openedUnder = U2 /\ subs[2].state = "open"
  /\ messages # <<>>
  /\ lastSnapshot # <<>>

\* C19: the local list is changed by a snapshot delivery and by nothing else:
\* submit, acknowledgment, rejection, Draft edit, auth report and subscription
\* error leave it as it is; the Draft is changed by a Draft edit or by an
\* acknowledgment and by nothing else.
C19_FrameOfListAndDraft ==
  /\ [][ last'.op \in {"submit", "submitNoop", "appendOk", "appendError", "edit",
                       "authStateChanged", "snapshotError"}
           => messages' = messages ]_vars
  /\ [][ messages' # messages => last'.op = "snapshot" ]_vars
  /\ [][ newMessage' # newMessage => last'.op \in {"edit", "appendOk"} ]_vars

C19_Witness ==
  /\ last.op = "appendError"
  /\ Len(messages) = 1
  /\ newMessage = <<" ", "b">>
  /\ inflight = <<>>
  /\ Cardinality(server) = 1

\* C20: for every message of the local list and every identity, the current
\* one included, the row is labelled 'You', right-aligned and blue exactly
\* when the sender id is the identity's id; otherwise it is left-aligned and
\* grey and its label is "User: ", the first 8 characters of the sender id
\* and "..."; with a null identity no row is labelled 'You'.
C20_OwnMessagesLabelledYou ==
  \A u \in Uids \cup {Null, user} : \A k \in DOMAIN messages :
    LET row == Presented(u)[k]
        sender == messages[k].userId
        mine == (u \in Uids /\ sender = u)
    IN /\ Len(Presented(u)) = Len(messages)
       /\ row.label = <<"Y", "o", "u">> <=> mine
       /\ row.align = "justify-end" <=> mine
       /\ row.bubble = "bg-blue-500" <=> mine
       /\ ~mine => /\ row.align = "justify-start"
                   /\ row.bubble = "bg-gray-300"
                   /\ Len(row.label) = 6 + 8 + 3
                   /\ \A i \in 1..8 : row.label[6 + i] = sender[i]
                   /\ SubSeq(row.label, 1, 6) = <<"U", "s", "e", "r", ":", " ">>
                   /\ SubSeq(row.label, 15, 17) = <<".", ".", ".">>
       /\ u = Null => row.label # <<"Y", "o", "u">>

C20_Witness ==
  /\ lifecycle = "mounted"
  /\ isAuthReady
  /\ user = U1
  /\ Len(messages) = 2
  /\ messages[1].userId = U1
  /\ messages[2].userId = U2
  /\ Presented(user)[1].label = You
  /\ Presented(user)[2].label # You

====
